---- MODULE Spec2Model ----
(***************************************************************************)
(* Fluid demo driver (Demos/FluidDemo/main.cpp): the fixed-step clock and  *)
(* step driver (timeStep, reset), the selection and drag-perturbation      *)
(* controller (selection, mouseMove) and the scene builder                 *)
(* (createBreakingDam).                                                    *)
(*                                                                         *)
(* Units.  Real quantities are kept as exact integers:                     *)
(*   lengths in 1/LengthScale  (particleRadius 0.025  = 25 / 1000),        *)
(*   times   in 1/TimeScale s  (step size      0.0025 = 25 / 10000),       *)
(*   velocities in length units per second.                                *)
(* Floating-point rounding of Real is not modelled.                        *)
(***************************************************************************)
EXTENDS Integers, Sequences, FiniteSets, TLC

(* ------------------------------ bounds -------------------------------- *)
\* Largest simulated time, in fixed steps, a run may reach before a reset:
\* in every specification, and in SpecInput.
MaxTimeSteps == 4
MaxInputTimeSteps == 1
\* Largest "steps per render" value the user may set.
MaxStepsPerRender == 2
\* Largest pause-at threshold the user may set, in fixed steps.
MaxPauseAtSteps == 1
\* Screen pixels are (0..MaxScreenX) x {0}: one row.
MaxScreenX == 1
\* Selection gestures and drag updates a run of SpecInput may hold.
MaxGestures == 2
MaxDrags == 2
\* Largest number of threads the parallel regions of the scene build may use.
MaxThreads == 2
\* Cap of the history counter of threshold pauses.
MaxForced == 2

(* ------------------------- program constants -------------------------- *)
LengthScale == 1000
particleRadius == 25
\* Lattice dimensions (scaled down from 15 x 20 x 15).
width == 2
depth == 2
height == 1
containerWidth == (width + 1) * particleRadius * 10
containerDepth == (depth + 1) * particleRadius * 2
\* Container height (scaled down from 4.0).
containerHeight == 50
TimeScale == 10000
TimeStepSize == 25

(* ------------------------------ vectors ------------------------------- *)
VecAdd(a, b) == <<a[1] + b[1], a[2] + b[2], a[3] + b[3]>>
VecSub(a, b) == <<a[1] - b[1], a[2] - b[2], a[3] - b[3]>>
VecScale(c, a) == <<c * a[1], c * a[2], c * a[3]>>
VecZero == <<0, 0, 0>>

(* --------------------------- scene builder ---------------------------- *)
numParticles == width * height * depth

\* fluidParticles[i*height*depth + j*depth + k] = diam*(i,j,k) + start
createBreakingDam ==
  LET diam == 2 * particleRadius
      startX == -(containerWidth \div 2) + diam
      startY == diam
      startZ == -(containerDepth \div 2) + diam
  IN [n \in 0..(numParticles - 1) |->
        LET i == n \div (height * depth)
            j == (n % (height * depth)) \div depth
            k == n % depth
        IN VecAdd(VecScale(diam, <<i, j, k>>), <<startX, startY, startZ>>)]

(* ------------------- scene builder: boundary walls -------------------- *)
\* initBoundaryData (lines 288-311): the six walls as <<minX, maxX>>, in the
\* order floor, top, left, right, back, front.
wallCorners ==
  LET x1 == -(containerWidth \div 2)
      x2 == containerWidth \div 2
      y1 == 0
      y2 == containerHeight
      z1 == -(containerDepth \div 2)
      z2 == containerDepth \div 2
  IN << <<(<<x1, y1, z1>>), (<<x2, y1, z2>>)>>,
        <<(<<x1, y2, z1>>), (<<x2, y2, z2>>)>>,
        <<(<<x1, y1, z1>>), (<<x1, y2, z2>>)>>,
        <<(<<x2, y1, z1>>), (<<x2, y2, z2>>)>>,
        <<(<<x1, y1, z1>>), (<<x2, y2, z1>>)>>,
        <<(<<x1, y1, z2>>), (<<x2, y2, z2>>)>> >>

numWalls == Len(wallCorners)

wallStepsNoEndpoint(minX, maxX) ==
  LET particleDistance == 2 * particleRadius
      diff == VecSub(maxX, minX)
  IN <<diff[1] \div particleDistance, diff[2] \div particleDistance, diff[3] \div particleDistance>>

\* addWall, lines 261-266: <<stepsX, stepsY, stepsZ>>.
wallSteps(minX, maxX) ==
  LET particleDistance == 2 * particleRadius
      diff == VecSub(maxX, minX)
  IN <<(diff[1] \div particleDistance) + 1, (diff[2] \div particleDistance) + 1, (diff[3] \div particleDistance) + 1>>

\* addWall, line 280: currPos of cell (j, k, l).
wallPosition(minX, j, k, l) ==
  LET particleDistance == 2 * particleRadius
  IN VecAdd(minX, <<j * particleDistance, k * particleDistance, l * particleDistance>>)

\* addWall, line 281: the cell (j, k, l) is written to.
wallIndex(startIndex, steps, j, k, l) ==
  startIndex + j * steps[2] * steps[3] + k * steps[3] + l

\* createBreakingDam, line 242: the position of lattice cell (i, j, k).
fluidPosition(i, j, k) ==
  LET diam == 2 * particleRadius
      startX == -(containerWidth \div 2) + diam
      startY == diam
      startZ == -(containerDepth \div 2) + diam
  IN VecAdd(VecScale(diam, <<i, j, k>>), <<startX, startY, startZ>>)

fluidIndexFlat(i, j, k) == i * height + j * depth + k

\* createBreakingDam, line 242: the cell (i, j, k) is written to.
fluidIndex(i, j, k) == i * height * depth + j * depth + k

\* A cell of a resized vector that no thread has written yet.
Unset == <<>>

\* std::vector::resize(n): the old cells kept, the new ones unwritten.
resize(vec, n) ==
  [c \in 0..(n - 1) |-> IF c \in DOMAIN vec THEN vec[c] ELSE Unset]

\* schedule(static): thread t of nthreads runs the outer iterations
\* chunkLo..chunkHi-1 of 0..n-1, one contiguous chunk per thread.
chunkSize(n, nthreads) == (n + nthreads - 1) \div nthreads
chunkLo(t, n, nthreads) ==
  IF t * chunkSize(n, nthreads) < n THEN t * chunkSize(n, nthreads) ELSE n
chunkHi(t, n, nthreads) ==
  IF (t + 1) * chunkSize(n, nthreads) < n THEN (t + 1) * chunkSize(n, nthreads) ELSE n

(* ------------------------------- state -------------------------------- *)
VARIABLES
  build,              \* createBreakingDam: its progress and the two arrays it hands to the model
  pause,              \* DemoBase::PAUSE
  pauseAt,            \* DemoBase::PAUSE_AT
  numSteps,           \* DemoBase::NUM_STEPS_PER_RENDER
  time,               \* TimeManager::getTime()
  x0,                 \* ParticleData: positions handed to initModel
  x,                  \* ParticleData: current positions
  v,                  \* ParticleData: current velocities
  selectedParticles,  \* std::vector<unsigned int> selectedParticles
  oldMousePos,        \* Vector3r oldMousePos
  mouseMoveFunc,      \* MiniGL: TRUE iff mouseMove is the registered handler
  stepCalls,          \* history: simulation.step calls since the clock was last 0
  drags,              \* history: mouseMove calls so far (saturating)
  gestures,           \* history: selection calls so far (saturating)
  lastOp,             \* history: the latest handler and its arguments
  pre,                \* history: the state the latest handler started from
  run,                \* history: the running ticks since the clock was last 0
  drag,               \* history: the current series of consecutive mouseMove calls
  thr,                \* history: the ticks under a pause-at threshold since the clock was last 0
  fault               \* history: a failed solver call and what followed it

vars == <<build, pause, pauseAt, numSteps, time, x0, x, v, selectedParticles, oldMousePos, mouseMoveFunc, stepCalls, drags, gestures, lastOp, pre, run, drag, thr, fault>>

ScreenPoints == (0..MaxScreenX) \X {0}
PauseAtValues == {i * TimeStepSize : i \in -1..MaxPauseAtSteps}
Indices == 0..(numParticles - 1)

(* ------------------- presentation layer (MiniGL) ---------------------- *)
\* Orthographic view along z: lattice cell (i,j,k) is drawn at pixel (i,j).
project(p) ==
  LET diam == 2 * particleRadius
      startX == -(containerWidth \div 2) + diam
  IN <<(p[1] - startX) \div diam, (p[2] - diam) \div diam>>

\* The world point of a pixel on the near plane, where one pixel spans diam/5.
unproject(px, py) ==
  LET nearPixel == (2 * particleRadius) \div 5
  IN <<px * nearPixel, py * nearPixel, 0>>

\* What an unproject call may leave in its output parameter `out`: the world
\* point when it succeeds; when it fails the parameter is either not written
\* (it keeps `out`) or holds an invalid point.
unprojectResults(ok, px, py, out) ==
  IF ok THEN {unproject(px, py)} ELSE {out, <<-1, -1, -1>>}

\* The values an uninitialised local Vector3r may hold.
Indeterminate == {VecZero, <<-1, -1, -1>>}

\* Selection::selectRect: appends to hits, in index order, the indices of the
\* positions posBegin..posEnd that are drawn inside the rectangle start, end.
insideRect(start, end, p) ==
  LET left == IF start[1] < end[1] THEN start[1] ELSE end[1]
      right == IF start[1] < end[1] THEN end[1] ELSE start[1]
      top == IF start[2] < end[2] THEN start[2] ELSE end[2]
      bottom == IF start[2] < end[2] THEN end[2] ELSE start[2]
      s == project(p)
  IN left <= s[1] /\ s[1] <= right /\ top <= s[2] /\ s[2] <= bottom

RECURSIVE selectRect(_, _, _, _, _, _)
selectRect(start, end, pos, posBegin, posEnd, hits) ==
  IF posBegin > posEnd THEN hits
  ELSE selectRect(start, end, pos, posBegin + 1, posEnd, IF insideRect(start, end, pos[posBegin]) THEN Append(hits, posBegin) ELSE hits)

(* ----------------------- solver (FluidModel) -------------------------- *)
\* model.initModel: the particle data after loading the scene.
initModel(fluidParticles) ==
  [x0 |-> fluidParticles, x |-> fluidParticles, v |-> [i \in DOMAIN fluidParticles |-> VecZero]]

\* model.reset(): positions back to the loaded scene, velocities zero.
modelReset(p0) ==
  [x |-> p0, v |-> [i \in DOMAIN p0 |-> VecZero]]

\* simulation.step(model): one fixed step.  Positions drift with the
\* velocities; the clock advances by the step size.
simulationStep(s) ==
  [s EXCEPT !.x = [i \in DOMAIN s.x |-> VecAdd(s.x[i], <<(s.v[i][1] * TimeStepSize) \div TimeScale, (s.v[i][2] * TimeStepSize) \div TimeScale, (s.v[i][3] * TimeStepSize) \div TimeScale>>)],
            !.time = s.time + TimeStepSize]

\* base->step(): per-step bookkeeping of the demo base (no modelled state).
baseStep(s) == s

(* ------------------------- history variables -------------------------- *)
snapshot ==
  [pause |-> pause, time |-> time, stepCalls |-> stepCalls, moved |-> (x # x0),
   selectedParticles |-> selectedParticles]

saturate(n, cap) == IF n < cap THEN n + 1 ELSE cap
count == <<drags, gestures>>

op(name, start, end, ok) == [op |-> name, start |-> start, end |-> end, ok |-> ok]

noRun == [n |-> 0, k |-> 0, ok |-> TRUE]
noDrag == [n |-> 0, v0 |-> [i \in Indices |-> VecZero], a0 |-> VecZero]
noThr == [ok |-> TRUE, k |-> 0, at |-> 0, forced |-> 0]
noFault == [failed |-> FALSE, alive |-> TRUE, after |-> FALSE]

(* ----------------- scene builder: the parallel regions ---------------- *)
\* The number of cells thread t writes in the parallel loop over `outer`
\* iterations of `inner` cells each.
chunkCells(t, outer, inner, nthreads) ==
  (chunkHi(t, outer, nthreads) - chunkLo(t, outer, nthreads)) * inner

noneWritten(nthreads) == [t \in 0..(nthreads - 1) |-> 0]

\* The wall being filled: its corners, step counts and first cell.
currentWall == wallCorners[build.wall]
currentSteps == wallSteps(currentWall[1], currentWall[2])
currentCells == currentSteps[1] * currentSteps[2] * currentSteps[3]
currentStart == Cardinality(DOMAIN build.boundaryParticles) - currentCells

\* createBreakingDam, lines 230-231: the state on entering the first parallel
\* region, before any handler can run.
InitBuild ==
  /\ \E nthreads \in 1..MaxThreads :
       build = [phase |-> "fluid", wall |-> 0, nthreads |-> nthreads,
                written |-> noneWritten(nthreads),
                fluidParticles |-> resize(<<>>, width * height * depth),
                boundaryParticles |-> <<>>]
  /\ pause = TRUE
  /\ pauseAt = 0
  /\ numSteps = 1
  /\ time = 0
  /\ x0 = <<>>
  /\ x = <<>>
  /\ v = <<>>
  /\ selectedParticles = <<>>
  /\ oldMousePos = VecZero
  /\ mouseMoveFunc = FALSE
  /\ stepCalls = 0
  /\ drags = 0
  /\ gestures = 0
  /\ lastOp = op("init", <<0, 0>>, <<0, 0>>, TRUE)
  /\ pre = snapshot
  /\ run = noRun
  /\ drag = noDrag
  /\ thr = noThr
  /\ fault = noFault

running == <<pause, pauseAt, numSteps, time, selectedParticles, oldMousePos, mouseMoveFunc, stepCalls, drags, gestures, lastOp, pre, run, drag, thr, fault>>

\* Lines 236-244: thread t writes the next cell of its chunk of the i loop.
fluidWrite(t) ==
  /\ build.phase = "fluid"
  /\ build.written[t] < chunkCells(t, width, height * depth, build.nthreads)
  /\ LET m == build.written[t]
         i == chunkLo(t, width, build.nthreads) + (m \div (height * depth))
         j == (m % (height * depth)) \div depth
         k == m % depth
     IN build' = [build EXCEPT !.written[t] = m + 1,
                               !.fluidParticles[fluidIndex(i, j, k)] = fluidPosition(i, j, k)]
  /\ UNCHANGED <<x0, x, v, running>>

\* addWall, lines 268-269: the boundary vector grown by the cells of wall w.
addWallResize(b, w) ==
  LET steps == wallSteps(wallCorners[w][1], wallCorners[w][2])
      startIndex == Cardinality(DOMAIN b.boundaryParticles)
  IN [b EXCEPT !.phase = "wall", !.wall = w, !.written = noneWritten(b.nthreads),
               !.boundaryParticles = resize(@, startIndex + steps[1] * steps[2] * steps[3])]

\* The barrier that ends a parallel region: every thread has written its chunk.
fluidBarrier ==
  \A t \in DOMAIN build.written :
    build.written[t] = chunkCells(t, width, height * depth, build.nthreads)

wallBarrier ==
  \A t \in DOMAIN build.written :
    build.written[t] = chunkCells(t, currentSteps[1], currentSteps[2] * currentSteps[3], build.nthreads)

\* Lines 245-251 and 300: the first region is left and the floor is begun.
fluidDone ==
  /\ build.phase = "fluid"
  /\ fluidBarrier
  /\ build' = addWallResize(build, 1)
  /\ UNCHANGED <<x0, x, v, running>>

\* Lines 273-283: thread t writes the next cell of its chunk of the j loop.
wallWrite(t) ==
  /\ build.phase = "wall"
  /\ build.written[t] < chunkCells(t, currentSteps[1], currentSteps[2] * currentSteps[3], build.nthreads)
  /\ LET m == build.written[t]
         inner == currentSteps[2] * currentSteps[3]
         j == chunkLo(t, currentSteps[1], build.nthreads) + (m \div inner)
         k == (m % inner) \div currentSteps[3]
         l == m % currentSteps[3]
     IN build' = [build EXCEPT !.written[t] = m + 1,
                               !.boundaryParticles[wallIndex(currentStart, currentSteps, j, k, l)] = wallPosition(currentWall[1], j, k, l)]
  /\ UNCHANGED <<x0, x, v, running>>

\* Lines 284-286 and 302-310: a wall is complete and the next one is begun.
wallDone ==
  /\ build.phase = "wall"
  /\ build.wall < numWalls
  /\ wallBarrier
  /\ build' = addWallResize(build, build.wall + 1)
  /\ UNCHANGED <<x0, x, v, running>>

\* Line 253: the last wall is complete and the arrays are handed to initModel.
buildDone ==
  /\ build.phase = "wall"
  /\ build.wall = numWalls
  /\ wallBarrier
  /\ build' = [build EXCEPT !.phase = "done", !.written = noneWritten(build.nthreads)]
  /\ LET m == initModel(build.fluidParticles)
     IN x0' = m.x0 /\ x' = m.x /\ v' = m.v
  /\ UNCHANGED running

NextBuild ==
  \/ \E t \in DOMAIN build.written : fluidWrite(t)
  \/ fluidDone
  \/ \E t \in DOMAIN build.written : wallWrite(t)
  \/ wallDone
  \/ buildDone

\* The scene build, from the first parallel region to initModel.
SpecBuild == InitBuild /\ [][NextBuild]_vars

\* addWall run by one thread: the boundary vector after wall w is appended.
addWall(b, w) ==
  LET steps == wallSteps(wallCorners[w][1], wallCorners[w][2])
      startIndex == Cardinality(DOMAIN b)
  IN [c \in 0..(startIndex + steps[1] * steps[2] * steps[3] - 1) |->
       IF c < startIndex THEN b[c]
       ELSE LET m == c - startIndex
            IN wallPosition(wallCorners[w][1], m \div (steps[2] * steps[3]), (m % (steps[2] * steps[3])) \div steps[3], m % steps[3])]

\* initBoundaryData run by one thread: the six walls in order.
RECURSIVE initBoundaryData(_, _)
initBoundaryData(b, w) ==
  IF w > numWalls THEN b ELSE initBoundaryData(addWall(b, w), w + 1)

\* The build record when createBreakingDam returns.
built ==
  [phase |-> "done", wall |-> numWalls, nthreads |-> 1, written |-> noneWritten(1),
   fluidParticles |-> createBreakingDam, boundaryParticles |-> initBoundaryData(<<>>, 1)]

(* ------------------------------ Init ---------------------------------- *)
\* The state when MiniGL::mainLoop is entered (main, lines 62-96).
Init ==
  LET m == initModel(createBreakingDam)
  IN /\ build = built
     /\ thr = noThr
     /\ fault = noFault
     /\ pause = TRUE
     /\ pauseAt = 0
     /\ numSteps = 1
     /\ time = 0
     /\ x0 = m.x0
     /\ x = m.x
     /\ v = m.v
     /\ selectedParticles = <<>>
     /\ oldMousePos = VecZero
     /\ mouseMoveFunc = FALSE
     /\ stepCalls = 0
     /\ drags = 0
     /\ gestures = 0
     /\ lastOp = op("init", <<0, 0>>, <<0, 0>>, TRUE)
     /\ pre = snapshot
     /\ run = noRun
     /\ drag = noDrag

(* ----------------------------- timeStep ------------------------------- *)
pauseAtCheckNever(p, at, t) == p

pauseAtCheckOnce(p, at, t) ==
  IF (at > 0) /\ (at < t) /\ thr.forced = 0 THEN TRUE ELSE p

pauseAtCheckInclusive(p, at, t) ==
  IF (at > 0) /\ (at <= t) THEN TRUE ELSE p

\* The pause-at test of lines 157-159: the value of PAUSE after it.
pauseAtCheck(p, at, t) ==
  IF (at > 0) /\ (at < t) THEN TRUE ELSE p

stepsThisTickIgnoringPause(p, n) == n

\* Lines 161-165: the number of fixed steps the tick executes.
stepsThisTick(p, n) ==
  IF p THEN 0 ELSE n

RECURSIVE stepLoopOneMore(_, _, _)
stepLoopOneMore(i, n, s) ==
  IF i <= n
    THEN stepLoopOneMore(i + 1, n, baseStep([simulationStep(s) EXCEPT !.calls = @ + 1]))
    ELSE s

RECURSIVE stepLoopFrameClock(_, _, _)
stepLoopFrameClock(i, n, s) ==
  IF i < n
    THEN stepLoopFrameClock(i + 1, n, baseStep([simulationStep(s) EXCEPT !.calls = @ + 1]))
    ELSE [s EXCEPT !.time = @ + 1]

RECURSIVE stepLoopTestingThreshold(_, _, _)
stepLoopTestingThreshold(i, n, s) ==
  IF i < n /\ ~((pauseAt > 0) /\ (pauseAt < s.time))
    THEN stepLoopTestingThreshold(i + 1, n, baseStep([simulationStep(s) EXCEPT !.calls = @ + 1]))
    ELSE s

RECURSIVE stepLoop(_, _, _)
\* The loop of lines 166-173, from iteration i, on s = [x, v, time, calls].
stepLoop(i, n, s) ==
  IF i < n
    THEN stepLoop(i + 1, n, baseStep([simulationStep(s) EXCEPT !.calls = @ + 1]))
    ELSE s

\* The threshold history after a tick that leaves PAUSE = p: a stepping tick
\* extends the run if it has the run's steps per render and threshold; a tick
\* in which the threshold ends the Running state is counted.
thrAfter(p) ==
  IF ~p
    THEN IF thr.ok /\ pauseAt > 0 /\ (thr.k = 0 \/ (thr.k = numSteps /\ thr.at = pauseAt))
           THEN [thr EXCEPT !.k = numSteps, !.at = pauseAt]
           ELSE [thr EXCEPT !.ok = FALSE, !.k = 0, !.at = 0]
    ELSE IF ~pause THEN [thr EXCEPT !.forced = saturate(@, MaxForced)] ELSE thr

timeStep ==
  LET p == pauseAtCheck(pause, pauseAt, time)
      s == stepLoop(0, stepsThisTick(p, numSteps), [x |-> x, v |-> v, time |-> time, calls |-> stepCalls])
      steady == run.ok /\ pauseAt <= 0 /\ (run.n = 0 \/ run.k = numSteps)
  IN /\ s.time <= MaxTimeSteps * TimeStepSize
     /\ pause' = p
     /\ x' = s.x
     /\ v' = s.v
     /\ time' = s.time
     /\ stepCalls' = s.calls
     /\ run' = IF p THEN run
               ELSE IF steady THEN [n |-> run.n + 1, k |-> numSteps, ok |-> TRUE]
               ELSE [n |-> 0, k |-> 0, ok |-> FALSE]
     /\ lastOp' = op("timeStep", <<0, 0>>, <<0, 0>>, TRUE)
     /\ pre' = snapshot
     /\ drag' = noDrag
     /\ thr' = thrAfter(p)
     /\ fault' = [fault EXCEPT !.after = @ \/ (fault.failed /\ s.calls > stepCalls)]
     /\ UNCHANGED <<build, pauseAt, numSteps, x0, selectedParticles, oldMousePos, mouseMoveFunc, count>>

\* A simulation.step call that fails on s = [x, v, time, calls]: it either
\* raises an error or returns with the particle data it has reached.
solverFailure(s, raises) ==
  [state |-> IF raises THEN [s EXCEPT !.calls = @ + 1]
             ELSE [simulationStep(s) EXCEPT !.calls = @ + 1],
   raised |-> raises]

\* timeStep when the call of iteration f fails.  Lines 166-173 test nothing
\* and catch nothing: when the call returns, the loop goes on with iteration
\* f + 1; when it raises, the error leaves timeStep and MiniGL::mainLoop and
\* ends the process.
timeStepFault(f, raises) ==
  LET p == pauseAtCheck(pause, pauseAt, time)
      n == stepsThisTick(p, numSteps)
      r == solverFailure(stepLoop(0, f, [x |-> x, v |-> v, time |-> time, calls |-> stepCalls]), raises)
      s == IF r.raised THEN r.state ELSE stepLoop(f + 1, n, baseStep(r.state))
  IN /\ f < n
     /\ ~fault.failed
     /\ s.time <= MaxTimeSteps * TimeStepSize
     /\ pause' = p
     /\ x' = s.x
     /\ v' = s.v
     /\ time' = s.time
     /\ stepCalls' = s.calls
     /\ run' = [n |-> 0, k |-> 0, ok |-> FALSE]
     /\ lastOp' = op("timeStep", <<0, 0>>, <<0, 0>>, FALSE)
     /\ pre' = snapshot
     /\ drag' = noDrag
     /\ thr' = [thr EXCEPT !.ok = FALSE, !.k = 0, !.at = 0]
     /\ fault' = [failed |-> TRUE, alive |-> ~r.raised, after |-> (~r.raised /\ f + 1 < n)]
     /\ UNCHANGED <<build, pauseAt, numSteps, x0, selectedParticles, oldMousePos, mouseMoveFunc, count>>

(* ------------------------------- reset -------------------------------- *)
\* Lines 119-121: the particle data and the clock after reset, from the
\* loaded scene p0.
resetResumes(p, p0) ==
  LET m == modelReset(p0)
  IN [x |-> m.x, v |-> m.v, time |-> 0, pause |-> FALSE]

resetKeepsParticles(p, p0) ==
  [x |-> x, v |-> v, time |-> 0, pause |-> p]

resetState(p, p0) ==
  LET m == modelReset(p0)
  IN [x |-> m.x, v |-> m.v, time |-> 0, pause |-> p]

resetClearsSelection ==
  LET r == resetState(pause, x0)
  IN /\ x' = r.x
     /\ v' = r.v
     /\ time' = r.time
     /\ pause' = r.pause
     /\ stepCalls' = 0
     /\ run' = noRun
     /\ lastOp' = op("reset", <<0, 0>>, <<0, 0>>, TRUE)
     /\ pre' = snapshot
     /\ drag' = noDrag
     /\ thr' = noThr
     /\ selectedParticles' = <<>>
     /\ mouseMoveFunc' = FALSE
     /\ UNCHANGED <<build, fault, pauseAt, numSteps, x0, oldMousePos, count>>

reset ==
  LET r == resetState(pause, x0)
  IN /\ x' = r.x
     /\ v' = r.v
     /\ time' = r.time
     /\ pause' = r.pause
     /\ stepCalls' = 0
     /\ run' = noRun
     /\ lastOp' = op("reset", <<0, 0>>, <<0, 0>>, TRUE)
     /\ pre' = snapshot
     /\ drag' = noDrag
     /\ thr' = noThr
     /\ UNCHANGED <<build, fault, pauseAt, numSteps, x0, selectedParticles, oldMousePos, mouseMoveFunc, count>>

(* ----------------------------- mouseMove ------------------------------ *)
RECURSIVE addVelocityToAll(_, _, _, _)
addVelocityToAll(vel, sel, j, diff) ==
  IF j <= numParticles
    THEN addVelocityToAll([vel EXCEPT ![j - 1] = VecAdd(@, <<(5 * diff[1] * TimeScale) \div TimeStepSize, (5 * diff[2] * TimeScale) \div TimeStepSize, (5 * diff[3] * TimeScale) \div TimeStepSize>>)], sel, j + 1, diff)
    ELSE vel

\* The loop of lines 134-137: 5.0*diff/h added to every selected velocity.
RECURSIVE addVelocity(_, _, _, _)
addVelocity(vel, sel, j, diff) ==
  IF j <= Len(sel)
    THEN addVelocity([vel EXCEPT ![sel[j]] = VecAdd(@, <<(5 * diff[1] * TimeScale) \div TimeStepSize, (5 * diff[2] * TimeScale) \div TimeStepSize, (5 * diff[3] * TimeScale) \div TimeStepSize>>)], sel, j + 1, diff)
    ELSE vel

anchorKept(old, mousePos) == old

\* The anchor after a drag update (line 138).
newAnchor(old, mousePos) == mousePos

mouseMove(px, py, ok) ==
  /\ mouseMoveFunc
  /\ \E garbage \in Indeterminate :
       \E mousePos \in unprojectResults(ok, px, py, garbage) :
         LET diff == VecSub(mousePos, oldMousePos)
         IN /\ v' = addVelocity(v, selectedParticles, 1, diff)
            /\ oldMousePos' = newAnchor(oldMousePos, mousePos)
  /\ drags' = saturate(drags, MaxDrags)
  /\ lastOp' = op("mouseMove", <<0, 0>>, <<px, py>>, ok)
  /\ pre' = snapshot
  /\ drag' = IF lastOp.op = "mouseMove" THEN [drag EXCEPT !.n = @ + 1]
                                        ELSE [n |-> 1, v0 |-> v, a0 |-> oldMousePos]
  /\ UNCHANGED <<build, thr, fault, pause, pauseAt, numSteps, time, x0, x, selectedParticles, mouseMoveFunc, stepCalls, run, gestures>>

(* ----------------------------- selection ------------------------------ *)
selectHitsNoClear(start, end, pos, old) ==
  selectRect(start, end, pos, 0, numParticles - 1, old)

selectHitsShort(start, end, pos, old) ==
  selectRect(start, end, pos, 0, numParticles - 2, <<>>)

selectHitsOneBased(start, end, pos, old) ==
  LET hits == selectRect(start, end, pos, 0, numParticles - 1, <<>>)
  IN [j \in 1..Len(hits) |-> hits[j] + 1]

\* Lines 143-146: the Selection Set after the gesture.
selectHits(start, end, pos, old) ==
  selectRect(start, end, pos, 0, numParticles - 1, <<>>)

routingStaysEnabled(sel) == mouseMoveFunc \/ Len(sel) > 0

\* Lines 147-150: whether mouseMove is the registered mouse-move handler
\* after a gesture that selected sel.
routing(sel) == Len(sel) > 0

selection(start, end, ok) ==
  /\ selectedParticles' = selectHits(start, end, x, selectedParticles)
  /\ mouseMoveFunc' = routing(selectedParticles')
  /\ oldMousePos' \in unprojectResults(ok, end[1], end[2], oldMousePos)
  /\ gestures' = saturate(gestures, MaxGestures)
  /\ lastOp' = op("selection", start, end, ok)
  /\ pre' = snapshot
  /\ drag' = noDrag
  /\ UNCHANGED <<build, thr, fault, pause, pauseAt, numSteps, time, x0, x, v, stepCalls, drags, run>>

(* --------------------- user-adjustable parameters --------------------- *)
togglePause ==
  /\ pause' = ~pause
  /\ lastOp' = op("togglePause", <<0, 0>>, <<0, 0>>, TRUE)
  /\ pre' = snapshot
  /\ drag' = noDrag
  /\ UNCHANGED <<build, thr, fault, pauseAt, numSteps, time, x0, x, v, selectedParticles, oldMousePos, mouseMoveFunc, stepCalls, drags, gestures, run>>

setPauseAt(t) ==
  /\ t # pauseAt
  /\ pauseAt' = t
  /\ lastOp' = op("setPauseAt", <<0, 0>>, <<0, 0>>, TRUE)
  /\ pre' = snapshot
  /\ drag' = noDrag
  /\ thr' = [thr EXCEPT !.forced = 0]
  /\ UNCHANGED <<build, fault, pause, numSteps, time, x0, x, v, selectedParticles, oldMousePos, mouseMoveFunc, stepCalls, drags, gestures, run>>

setNumSteps(k) ==
  /\ k # numSteps
  /\ numSteps' = k
  /\ lastOp' = op("setNumSteps", <<0, 0>>, <<0, 0>>, TRUE)
  /\ pre' = snapshot
  /\ drag' = noDrag
  /\ UNCHANGED <<build, thr, fault, pause, pauseAt, time, x0, x, v, selectedParticles, oldMousePos, mouseMoveFunc, stepCalls, drags, gestures, run>>

(* --------------------------- specifications --------------------------- *)
\* The clock and step driver: every parameter edit, and at most one selection
\* gesture and one drag update.
NextDriver ==
  \/ timeStep
  \/ reset
  \/ togglePause
  \/ \E t \in PauseAtValues : setPauseAt(t)
  \/ \E k \in 1..MaxStepsPerRender : setNumSteps(k)
  \/ \E start \in ScreenPoints, end \in ScreenPoints, ok \in BOOLEAN : gestures = 0 /\ selection(start, end, ok)
  \/ \E q \in ScreenPoints, ok \in BOOLEAN : drags = 0 /\ mouseMove(q[1], q[2], ok)

SpecDriver == Init /\ [][NextDriver]_vars

\* The selection and drag controller: every gesture and drag update, while
\* pause-at and steps per render keep their initial values and the end corner
\* of a gesture lies inside the viewing frustum.
NextInput ==
  \/ (pause \/ time < MaxInputTimeSteps * TimeStepSize) /\ timeStep
  \/ reset
  \/ togglePause
  \/ \E start \in ScreenPoints, end \in ScreenPoints : gestures < MaxGestures /\ selection(start, end, TRUE)
  \/ \E q \in ScreenPoints, ok \in BOOLEAN : drags < MaxDrags /\ mouseMove(q[1], q[2], ok)

SpecInput == Init /\ [][NextInput]_vars

\* The step driver with a solver whose advance call can fail once; callbacks
\* are delivered while the process is alive.
NextFault ==
  \/ fault.alive /\ timeStep
  \/ \E f \in 0..(MaxStepsPerRender - 1), raises \in BOOLEAN : fault.alive /\ timeStepFault(f, raises)
  \/ fault.alive /\ reset
  \/ fault.alive /\ togglePause
  \/ \E k \in 1..MaxStepsPerRender : fault.alive /\ setNumSteps(k)

SpecFault == Init /\ [][NextFault]_vars

(* =============================== claims =============================== *)
Range(q) == {q[j] : j \in 1..Len(q)}
Hits(start, end) == {i \in Indices : insideRect(start, end, x[i])}

\* C1: a render tick that starts Paused executes no solver step and leaves the
\* clock where it was (and the driver Paused), whatever steps per render is; by
\* induction the same holds for any number of consecutive ticks.
C1_PausedTickIdle ==
  (lastOp.op = "timeStep" /\ pre.pause) =>
    (time = pre.time /\ stepCalls = pre.stepCalls /\ pause)

C1_Witness ==
  lastOp.op = "timeStep" /\ pre.pause /\ numSteps > 1 /\ time > 0 /\ pauseAt = 0

\* C2: after N ticks in the Running state, all with k steps per render and no
\* pause-at threshold, since the clock was 0, the solver has advanced N*k times
\* and the clock reads N*k*stepSize.
C2_ClockExact ==
  run.ok => (stepCalls = run.n * run.k /\ time = run.n * run.k * TimeStepSize)

C2_Witness ==
  run.ok /\ run.n >= 2 /\ run.k >= 2 /\ lastOp.op = "timeStep"

\* C3 (as claimed): with pause-at T > 0, a tick whose pre-step clock time is
\* >= T, T itself included, pauses the driver and executes no solver step.
C3_Original ==
  (lastOp.op = "timeStep" /\ pauseAt > 0 /\ pre.time >= pauseAt) =>
    (pause /\ stepCalls = pre.stepCalls)

\* C3 (amended): with pause-at T > 0, a tick whose pre-step clock time is
\* strictly greater than T pauses the driver and executes no solver step; a
\* tick that starts Running with the clock exactly at T executes its steps.
C3_PauseAtStrict ==
  /\ (lastOp.op = "timeStep" /\ pauseAt > 0 /\ pre.time > pauseAt) =>
       (pause /\ stepCalls = pre.stepCalls /\ time = pre.time)
  /\ (lastOp.op = "timeStep" /\ pauseAt > 0 /\ pre.time = pauseAt /\ ~pre.pause) =>
       (~pause /\ stepCalls = pre.stepCalls + numSteps)

C3_Witness ==
  lastOp.op = "timeStep" /\ pauseAt > 0 /\ pre.time > pauseAt /\ ~pre.pause /\ pause

\* C4: after reset the clock is 0 and every fluid particle is at the position
\* the scene build produced for its index, whatever ticks, selections and drag
\* perturbations came before.
C4_ResetRestores ==
  lastOp.op = "reset" => (time = 0 /\ x = createBreakingDam)

C4_Witness ==
  lastOp.op = "reset" /\ pre.moved /\ pre.time > 0 /\ pre.selectedParticles # <<>>

\* C5: reset leaves the pause state as it was; a Paused driver stays Paused.
C5_ResetKeepsPause ==
  lastOp.op = "reset" => pause = pre.pause

C5_Witness ==
  lastOp.op = "reset" /\ pre.pause /\ pause /\ pre.time > 0

\* C6: the clock is always a non-negative whole multiple of the step size, and
\* selection and drag operations leave it unchanged.
C6_ClockWholeSteps ==
  /\ time >= 0
  /\ time % TimeStepSize = 0
  /\ lastOp.op \in {"selection", "mouseMove"} => time = pre.time

C6_Witness ==
  lastOp.op = "mouseMove" /\ time >= 2 * TimeStepSize /\ selectedParticles # <<>>

C8_SelectionReplaces ==
  lastOp.op = "selection" =>
    /\ Range(selectedParticles) = Hits(lastOp.start, lastOp.end)
    /\ Len(selectedParticles) = Cardinality(Hits(lastOp.start, lastOp.end))
    /\ (Hits(lastOp.start, lastOp.end) = {}) => (selectedParticles = <<>>)

C8_Witness ==
  /\ lastOp.op = "selection"
  /\ selectedParticles # <<>>
  /\ \E i \in Range(pre.selectedParticles) : i \notin Range(selectedParticles)

\* C9: a series of consecutive drag updates leaves every velocity where one
\* update over the summed displacement, from the anchor the series started
\* with, would have left it; a successful update sets the anchor to the new
\* cursor position.
C9_DragLinear ==
  (lastOp.op = "mouseMove" /\ drag.n >= 1) =>
    /\ v = addVelocity(drag.v0, selectedParticles, 1, VecSub(oldMousePos, drag.a0))
    /\ lastOp.ok => oldMousePos = unproject(lastOp.end[1], lastOp.end[2])

C9_Witness ==
  /\ lastOp.op = "mouseMove"
  /\ drag.n = 2
  /\ lastOp.ok
  /\ selectedParticles # <<>>
  /\ oldMousePos # drag.a0
  /\ v # drag.v0

\* C10 (as claimed): a drag update whose unproject call fails changes no
\* velocity and keeps the stored reference cursor position.
C10_FailedDragNoOp ==
  [][(lastOp'.op = "mouseMove" /\ ~lastOp'.ok) => (v' = v /\ oldMousePos' = oldMousePos)]_vars

(* ----------------------------- scene build ---------------------------- *)
\* The cells of the boundary vector that wall w occupies, and the number of
\* lattice points floor(e/s) + 1 on a wall edge of extent e.
PointsOnEdge(e) == Cardinality({q \in 0..e : q % (2 * particleRadius) = 0})
WallExtent(w) == VecSub(wallCorners[w][2], wallCorners[w][1])
WallCount(w) == PointsOnEdge(WallExtent(w)[1]) * PointsOnEdge(WallExtent(w)[2]) * PointsOnEdge(WallExtent(w)[3])
RECURSIVE WallCountsUpTo(_)
WallCountsUpTo(w) == IF w = 0 THEN 0 ELSE WallCountsUpTo(w - 1) + WallCount(w)
WallCells(w) == WallCountsUpTo(w - 1)..(WallCountsUpTo(w) - 1)
Occurrences(p) == Cardinality({c \in DOMAIN build.boundaryParticles : build.boundaryParticles[c] = p})

\* C11: whatever the number of threads and the interleaving of their writes,
\* when the arrays are handed to initModel every fluid cell has been written and
\* cell i*height*depth + j*depth + k holds the position of lattice point
\* (i,j,k); every boundary cell holds the value a single thread would have
\* written there, so the loaded scene is the same in every run.
C11_BuildDeterministic ==
  build.phase = "done" =>
    /\ DOMAIN build.fluidParticles = 0..(width * height * depth - 1)
    /\ \A i \in 0..(width - 1), j \in 0..(height - 1), k \in 0..(depth - 1) :
         build.fluidParticles[i * height * depth + j * depth + k] = fluidPosition(i, j, k)
    /\ \A w \in 1..numWalls : \A c \in WallCells(w) :
         LET m == c - WallCountsUpTo(w - 1)
             ny == PointsOnEdge(WallExtent(w)[2])
             nz == PointsOnEdge(WallExtent(w)[3])
         IN build.boundaryParticles[c] =
              VecAdd(wallCorners[w][1], VecScale(2 * particleRadius, <<m \div (ny * nz), (m % (ny * nz)) \div nz, m % nz>>))
    /\ build.fluidParticles = built.fluidParticles
    /\ build.boundaryParticles = built.boundaryParticles
    /\ x0 = build.fluidParticles

C11_Witness ==
  build.phase = "done" /\ build.nthreads > 1 /\ (\A c \in DOMAIN x0 : x0[c] # Unset)

\* C12: a wall of extents (ex,ey,ez) appends exactly
\* (floor(ex/s)+1)*(floor(ey/s)+1)*(floor(ez/s)+1) cells, an axis of zero
\* extent giving one layer; the boundary vector of the six walls has the sum of
\* the six counts as its length, and a position shared by adjacent walls occurs
\* once for each of them.
C12_WallCounts ==
  /\ build.phase \in {"wall", "done"} =>
       /\ DOMAIN build.boundaryParticles = 0..(WallCountsUpTo(build.wall) - 1)
       /\ \A w \in 1..build.wall : \A a \in 1..3 :
            (WallExtent(w)[a] = 0 /\ (w < build.wall \/ build.phase = "done")) =>
              \A c \in WallCells(w) : build.boundaryParticles[c][a] = wallCorners[w][1][a]
  /\ build.phase = "done" =>
       /\ Cardinality(DOMAIN build.boundaryParticles) =
            WallCount(1) + WallCount(2) + WallCount(3) + WallCount(4) + WallCount(5) + WallCount(6)
       /\ Occurrences(wallCorners[1][1]) = 3
       /\ Occurrences(wallCorners[6][2]) = 3

C12_Witness ==
  /\ build.phase = "done"
  /\ \E w \in 1..numWalls : WallExtent(w)[1] = 0 /\ WallCount(w) > 1
  /\ Cardinality(DOMAIN build.boundaryParticles) > Cardinality({build.boundaryParticles[c] : c \in DOMAIN build.boundaryParticles})

(* ---------------------------- solver failure -------------------------- *)
\* C13 (as claimed): after a solver advance call has failed during a Running
\* tick, no solver step is executed any more, in that tick or a later one, and
\* the callbacks are still delivered.
C13_FailureHaltsStepping ==
  fault.failed => (~fault.after /\ fault.alive)

(* --------------------------- pause-at threshold ----------------------- *)
\* A tick in which the pause-at threshold ended the Running state, after a run
\* from clock 0 whose stepping ticks all had thr.k steps per render and the
\* threshold thr.at that the tick tested.
AutoPaused ==
  lastOp.op = "timeStep" /\ ~pre.pause /\ pause /\ thr.ok /\ thr.k > 0 /\ thr.at = pauseAt

\* C14 (as claimed): with pause-at T > 0 set before running from clock 0 and k
\* steps per render, the clock at the moment of the automatic pause exceeds T
\* by at most (k-1)*stepSize.
C14_Original ==
  AutoPaused => (time - pauseAt <= (thr.k - 1) * TimeStepSize)

\* C14 (amended): under the same conditions the clock at the moment of the
\* automatic pause exceeds T by more than 0 and by at most k*stepSize.
C14_OvershootBound ==
  AutoPaused => (0 < time - pauseAt /\ time - pauseAt <= thr.k * TimeStepSize)

C14_Witness ==
  AutoPaused /\ time - pauseAt = thr.k * TimeStepSize

\* C15: a render tick never turns Paused into Running; it turns Running into
\* Paused only when the threshold is positive and the clock at the start of the
\* tick has passed it; and the threshold is tested once, before the first step:
\* a tick that stays Running executes all its steps, even when the clock passes
\* the threshold between two of them.
C15_TickPausesOnlyAtStart ==
  lastOp.op = "timeStep" =>
    /\ pre.pause => pause
    /\ (~pre.pause /\ pause) => (pauseAt > 0 /\ pre.time > pauseAt)
    /\ pauseAt <= 0 => pause = pre.pause
    /\ ~pause => (stepCalls = pre.stepCalls + numSteps /\ time = pre.time + numSteps * TimeStepSize)

C15_Witness ==
  /\ lastOp.op = "timeStep" /\ ~pause /\ pauseAt > 0 /\ pre.time <= pauseAt
  /\ numSteps > 1 /\ time - TimeStepSize > pauseAt

\* C19: in a state where the clock has passed a positive pause-at threshold no
\* handler executes a solver step or advances the clock, and a render tick
\* leaves the driver Paused even if the user has toggled it back to Running;
\* this lasts until reset or an edit of the threshold.
C19_NoStepPastThreshold ==
  [][((pauseAt > 0 /\ pauseAt < time) =>
        /\ stepCalls' <= stepCalls
        /\ time' <= time
        /\ (lastOp'.op = "timeStep" => (pause' /\ x' = x /\ stepCalls' = stepCalls /\ time' = time)))]_vars

C19_Witness ==
  lastOp.op = "timeStep" /\ ~pre.pause /\ pause /\ thr.forced >= 2 /\ pauseAt < time

(* ------------------------ selection and routing ----------------------- *)
\* C16: after every selection gesture, and in every state reached afterwards,
\* mouseMove is the registered mouse-move handler exactly when the Selection
\* Set is non-empty.
C16_RoutingIffSelected ==
  gestures > 0 => (mouseMoveFunc <=> (selectedParticles # <<>>))

C16_Witness ==
  /\ lastOp.op = "selection" /\ pre.selectedParticles # <<>>
  /\ selectedParticles = <<>> /\ ~mouseMoveFunc

\* C17: every index in the Selection Set is below the number of fluid
\* particles, which no step and no reset changes, so a drag update after steps
\* and resets still addresses existing particles.
C17_SelectionInRange ==
  /\ \A j \in 1..Len(selectedParticles) :
       selectedParticles[j] >= 0 /\ selectedParticles[j] < numParticles
  /\ DOMAIN x = 0..(numParticles - 1)
  /\ DOMAIN v = 0..(numParticles - 1)

C17_Witness ==
  /\ lastOp.op = "mouseMove" /\ (numParticles - 1) \in Range(selectedParticles)
  /\ x # x0 /\ time > 0

\* C18: a drag update writes nothing but the velocities of the selected
\* particles and the reference position: positions, the velocities of the
\* other particles, the boundary particles, the Selection Set, the clock, the
\* pause state and the parameters are as before.
C18_DragFrame ==
  [][(lastOp'.op = "mouseMove" /\ lastOp' # lastOp) =>
       /\ x' = x /\ x0' = x0 /\ build' = build
       /\ \A i \in Indices \ Range(selectedParticles) : v'[i] = v[i]
       /\ selectedParticles' = selectedParticles /\ mouseMoveFunc' = mouseMoveFunc
       /\ time' = time /\ pause' = pause /\ pauseAt' = pauseAt /\ numSteps' = numSteps]_vars

C18_Witness ==
  /\ lastOp.op = "mouseMove" /\ drag.n = 1
  /\ \E i \in Range(selectedParticles) : v[i] # drag.v0[i]
  /\ \E i \in Indices \ Range(selectedParticles) : v[i] = drag.v0[i] /\ v[i] # VecZero
  /\ oldMousePos # drag.a0

\* C20: reset leaves the Selection Set, the registration of mouseMove and the
\* reference position as they were.
C20_ResetKeepsSelection ==
  [][lastOp'.op = "reset" =>
       /\ selectedParticles' = selectedParticles
       /\ mouseMoveFunc' = mouseMoveFunc
       /\ oldMousePos' = oldMousePos]_vars

C20_Witness ==
  /\ lastOp.op = "reset" /\ pre.moved /\ selectedParticles # <<>>
  /\ mouseMoveFunc /\ oldMousePos # VecZero /\ x = x0

====
